---- MODULE Spec2Model ----
(***************************************************************************)
(* Request encoding engine of the telegram-bot-api crate: the choice       *)
(* between the JSON and the multipart encoding (BotApi::request), the      *)
(* multipart form (BotApi::upload_files), the media-group attachment       *)
(* naming (InputMedia::prepare_input_media_param / _file), the response    *)
(* envelope (APIResponse::parse), the decoding of the result in            *)
(* BotApi::send, the typed functions built on it (get_me,                  *)
(* upload_sticker_file, get_my_default_administrator_rights, BotApi::new)  *)
(* and the Display of bot::Error.                                          *)
(*                                                                         *)
(* Strings are TLA+ strings, so format!() is string concatenation.  The    *)
(* multipart form is kept as a bag of parts: reqwest keeps the parts in    *)
(* insertion order, which here is HashMap iteration order, and that order  *)
(* is modelled by resolving the slots one at a time in any order.          *)
(* Optional non-file fields (caption, parse_mode, ...) are None, as the    *)
(* new() constructors leave them, and so are omitted from the parameters.  *)
(***************************************************************************)
EXTENDS Bags, FiniteSets, Integers, Sequences, TLC

VARIABLES
    pc,        \* position of the dispatch: idle, upload_files, request, http,
               \* done (BotApi::request returned), replied (BotApi::send
               \* returned), new_returned (BotApi::new returned)
    request,   \* the method descriptor handed to BotApi::send
    params_map, \* the local `params`: types::Params built by request.params()
    files_map, \* the local `files`: the HashMap returned by request.files()
    pending,   \* slot names the running `for` loop has not visited yet
    path,      \* encoding chosen by BotApi::request: NONE, JSON, MULTIPART
    form,      \* reqwest::multipart::Form under construction (bag of parts)
    body,      \* JSON body handed to the HTTP client, as a params map
    sent,      \* HTTP requests issued by the current dispatch
    outcome,   \* what BotApi::request returned to BotApi::send
    received,  \* the HTTP response the client got: status and body, if any
    expect,    \* the type R the caller of BotApi::send asked for
    reply,     \* what BotApi::send returned to its caller
    opens,     \* tokio::fs::File::open calls of the current dispatch
    other,     \* the locals of a second dispatch that is suspended at an await
    call,      \* the BotApi function the caller invoked and the value it runs on
    posted,    \* the URL the HTTP request of the dispatch was posted to
    display    \* the Display::fmt calls on the stack while an Error is formatted

vars == <<pc, request, params_map, files_map, pending, path, form, body, sent, outcome,
          received, expect, reply, opens, other, call, posted, display>>

----------------------------------------------------------------------------
(* Bounds *)

MaxGroup == 3

\* Display::fmt frames the stack has room for.
MaxDepth == 4

----------------------------------------------------------------------------
(* serde_json::Value *)

JNull == [t |-> "null", n |-> 0, s |-> "", a |-> <<>>, o |-> <<>>]
JNum(n) == [t |-> "num", n |-> n, s |-> "", a |-> <<>>, o |-> <<>>]
JStr(s) == [t |-> "str", n |-> 0, s |-> s, a |-> <<>>, o |-> <<>>]
JBool(b) == [t |-> "bool", n |-> IF b THEN 1 ELSE 0, s |-> "", a |-> <<>>, o |-> <<>>]
JArr(a) == [t |-> "arr", n |-> 0, s |-> "", a |-> a, o |-> <<>>]
JObj(o) == [t |-> "obj", n |-> 0, s |-> "", a |-> <<>>, o |-> o]

EmptyMap == <<>>

\* HashMap::insert: the new value replaces an old one under the same key.
Insert(map, k, v) ==
    [x \in (DOMAIN map) \cup {k} |-> IF x = k THEN v ELSE map[x]]

----------------------------------------------------------------------------
(* Wire-value model: types::InputFile *)

FileID(id) == [tag |-> "FileID", s |-> id, bytes |-> <<>>]
FileURL(url) == [tag |-> "FileURL", s |-> url, bytes |-> <<>>]
FileAttach(attach) == [tag |-> "FileAttach", s |-> attach, bytes |-> <<>>]
FileBytes(file_name, bytes) == [tag |-> "FileBytes", s |-> file_name, bytes |-> bytes]
FilePath(p) == [tag |-> "FilePath", s |-> p, bytes |-> <<>>]

\* Option::None for an Option<InputFile> field.
NoFile == [tag |-> "None", s |-> "", bytes |-> <<>>]

\* Mutant: a local path is not counted as an upload.
need_upload_bytes_only(f) == f.tag = "FileBytes"

need_upload(f) == f.tag \in {"FileBytes", "FilePath"}

\* InputFileResult, and the Err of a failed tokio::fs::File::open.
Text(s) == [kind |-> "Text", text |-> s, file_name |-> "", content |-> <<>>]
Part(file_name, content) ==
    [kind |-> "Part", text |-> "", file_name |-> file_name, content |-> content]
IoErr == [kind |-> "Err", text |-> "", file_name |-> "", content |-> <<>>]

\* Bytes streamed from an opened local file.
FileContent(p) == <<7, 7>>

\* Mutant: a URL is fetched like a local file, which can fail.
data_url_fetch(f, open_ok) ==
    CASE f.tag = "FileID" -> Text(f.s)
      [] f.tag = "FileURL" -> IF open_ok THEN Text(f.s) ELSE IoErr
      [] f.tag = "FileAttach" -> Text(f.s)
      [] f.tag = "FileBytes" -> Part(f.s, f.bytes)
      [] f.tag = "FilePath" ->
            IF open_ok THEN Part(f.s, FileContent(f.s)) ELSE IoErr

\* InputFile::data: open_ok is whether tokio::fs::File::open succeeds.
data(f, open_ok) ==
    CASE f.tag = "FileID" -> Text(f.s)
      [] f.tag = "FileURL" -> Text(f.s)
      [] f.tag = "FileAttach" -> Text(f.s)
      [] f.tag = "FileBytes" -> Part(f.s, f.bytes)
      [] f.tag = "FilePath" ->
            IF open_ok THEN Part(f.s, FileContent(f.s)) ELSE IoErr

\* The file system decides the open; it is consulted only for FilePath.
DataOutcomes(f) == {data(f, ok) : ok \in BOOLEAN}

----------------------------------------------------------------------------
(* types::ChatId and the serde serialisation of the wire values *)

IntType(n) == JNum(n)
StringType(s) == JStr(s)

RECURSIVE BytesJson(_)
BytesJson(bytes) ==
    IF bytes = <<>> THEN <<>>
    ELSE <<JNum(Head(bytes))>> \o BytesJson(Tail(bytes))

\* #[serde(untagged)] on InputFile: a one-field variant is its string, the
\* two-field FileBytes is the array [file_name, bytes].
InputFileJson(f) ==
    IF f.tag = "FileBytes"
    THEN JArr(<<JStr(f.s), JArr(BytesJson(f.bytes))>>)
    ELSE JStr(f.s)

----------------------------------------------------------------------------
(* Media groups: types::InputMedia *)

\* InputMediaPhoto has no thumb field: thumb is NoFile for type "photo".
InputMedia(type, media, thumb) == [type |-> type, media |-> media, thumb |-> thumb]

attach_file_name(idx) == "file-" \o ToString(idx)
\* Mutant: the thumbnail part is named like the primary part.
attach_thumb_file_name_as_primary(idx) == "file-" \o ToString(idx)
attach_thumb_file_name(idx) == "file-" \o ToString(idx) \o "-thumb"
attach_file(idx) == FileAttach("attach://file-" \o ToString(idx))
attach_thumb_file(idx) == FileAttach("attach://file-" \o ToString(idx) \o "-thumb")

prepare_input_media_param(m, idx) ==
    IF m.type = "photo"
    THEN IF ~need_upload(m.media)
         THEN m
         ELSE [m EXCEPT !.media = attach_file(idx)]
    ELSE LET media == IF need_upload(m.media) THEN attach_file(idx) ELSE m.media
             thumb == IF m.thumb # NoFile /\ need_upload(m.thumb)
                      THEN attach_thumb_file(idx)
                      ELSE NoFile
         IN  [m EXCEPT !.media = media, !.thumb = thumb]

\* Mutant: the primary reference is recorded whether or not it needs upload.
prepare_input_media_file_always(m, idx) ==
    << <<attach_file_name(idx), m.media>> >>
    \o
    (IF m.type # "photo" /\ m.thumb # NoFile /\ need_upload(m.thumb)
     THEN << <<attach_thumb_file_name(idx), m.thumb>> >>
     ELSE <<>>)

prepare_input_media_file(m, idx) ==
    IF m.type = "photo"
    THEN IF need_upload(m.media)
         THEN << <<attach_file_name(idx), m.media>> >>
         ELSE <<>>
    ELSE (IF need_upload(m.media)
          THEN << <<attach_file_name(idx), m.media>> >>
          ELSE <<>>)
         \o
         (IF m.thumb # NoFile /\ need_upload(m.thumb)
          THEN << <<attach_thumb_file_name(idx), m.thumb>> >>
          ELSE <<>>)

\* #[serde(tag = "type")] on InputMedia, skip_serializing_if on thumb.
InputMediaJson(m) ==
    JObj([k \in {"type", "media"} \cup (IF m.thumb # NoFile THEN {"thumb"} ELSE {}) |->
            CASE k = "type" -> JStr(m.type)
              [] k = "media" -> InputFileJson(m.media)
              [] k = "thumb" -> InputFileJson(m.thumb)])

\* Mutant: idx counted from 1.
serialize_input_media_from_one(input_media) ==
    JArr([i \in 1..Len(input_media) |->
            InputMediaJson(prepare_input_media_param(input_media[i], i))])

\* serialize_input_media: element at position i of the slice gets idx = i,
\* counted from 0.
serialize_input_media(input_media) ==
    JArr([i \in 1..Len(input_media) |->
            InputMediaJson(prepare_input_media_param(input_media[i], i - 1))])

\* Value::to_string (impl Display for serde_json::Value): compact JSON
\* text.  Object keys come out in the order of serde_json's map; the strings
\* of the model hold no character that needs escaping.
KeyOrder == <<"media", "thumb", "type">>

RECURSIVE JsonText(_), JsonSeqText(_), JsonObjText(_, _)
JsonText(v) ==
    CASE v.t = "null" -> "null"
      [] v.t = "num" -> ToString(v.n)
      [] v.t = "bool" -> IF v.n = 1 THEN "true" ELSE "false"
      [] v.t = "str" -> "\"" \o v.s \o "\""
      [] v.t = "arr" -> "[" \o JsonSeqText(v.a) \o "]"
      [] v.t = "obj" -> "{" \o JsonObjText(v.o, KeyOrder) \o "}"
JsonSeqText(a) ==
    IF a = <<>> THEN ""
    ELSE JsonText(Head(a)) \o (IF Tail(a) = <<>> THEN "" ELSE ",") \o JsonSeqText(Tail(a))
JsonObjText(o, keys) ==
    IF keys = <<>> THEN ""
    ELSE LET k == Head(keys)
             rest == JsonObjText(o, Tail(keys))
         IN  IF k \in DOMAIN o
             THEN "\"" \o k \o "\":" \o JsonText(o[k]) \o (IF rest = "" THEN "" ELSE ",") \o rest
             ELSE rest

----------------------------------------------------------------------------
(* Method descriptors: methods::Methods and the serde attributes of the    *)
(* request structs.                                                        *)
(*   nonfile  : required fields that are not files                         *)
(*   required : fields of type InputFile                                   *)
(*   optional : fields of type Option<InputFile>                           *)
(*   skipped  : file fields marked #[serde(skip_serializing)]; the other   *)
(*              file fields are #[serde(skip_serializing_if = is_none)]    *)
(*   group    : the struct has the media: Vec<InputMedia> field            *)
(***************************************************************************)

GetMe ==
    [endpoint |-> "getMe", nonfile |-> {}, required |-> {}, optional |-> {},
     skipped |-> {}, group |-> FALSE]
SendPhoto ==
    [endpoint |-> "sendPhoto", nonfile |-> {"chat_id"}, required |-> {"photo"},
     optional |-> {}, skipped |-> {"photo"}, group |-> FALSE]
SendAudio ==
    [endpoint |-> "sendAudio", nonfile |-> {"chat_id"}, required |-> {"audio"},
     optional |-> {"thumb"}, skipped |-> {"audio"}, group |-> FALSE]
SendDocument ==
    [endpoint |-> "sendDocument", nonfile |-> {"chat_id"}, required |-> {"document"},
     optional |-> {"thumb"}, skipped |-> {"document"}, group |-> FALSE]
SendVideo ==
    [endpoint |-> "sendVideo", nonfile |-> {"chat_id"}, required |-> {"video"},
     optional |-> {"thumb"}, skipped |-> {"video"}, group |-> FALSE]
SendAnimation ==
    [endpoint |-> "sendAnimation", nonfile |-> {"chat_id"}, required |-> {"animation"},
     optional |-> {"thumb"}, skipped |-> {"animation"}, group |-> FALSE]
SendVoice ==
    [endpoint |-> "sendVoice", nonfile |-> {"chat_id"}, required |-> {"voice"},
     optional |-> {}, skipped |-> {"voice"}, group |-> FALSE]
SendVideoNote ==
    [endpoint |-> "sendVideoNote", nonfile |-> {"chat_id"}, required |-> {"video_note"},
     optional |-> {"thumb"}, skipped |-> {"video_note"}, group |-> FALSE]
SendMediaGroup ==
    [endpoint |-> "sendMediaGroup", nonfile |-> {"chat_id"}, required |-> {},
     optional |-> {}, skipped |-> {}, group |-> TRUE]
SetChatPhoto ==
    [endpoint |-> "setChatPhoto", nonfile |-> {"chat_id"}, required |-> {"photo"},
     optional |-> {}, skipped |-> {"photo"}, group |-> FALSE]
SetWebhook ==
    [endpoint |-> "setWebhook", nonfile |-> {"url"}, required |-> {},
     optional |-> {"certificate"}, skipped |-> {"certificate"}, group |-> FALSE]
SendSticker ==
    [endpoint |-> "sendSticker", nonfile |-> {"chat_id"}, required |-> {"sticker"},
     optional |-> {}, skipped |-> {"sticker"}, group |-> FALSE]
UploadStickerFile ==
    [endpoint |-> "uploadStickerFile", nonfile |-> {"user_id"}, required |-> {"png_sticker"},
     optional |-> {}, skipped |-> {"png_sticker"}, group |-> FALSE]
CreateNewStickerSet ==
    [endpoint |-> "createNewStickerSet", nonfile |-> {"user_id", "name", "title", "emojis"},
     required |-> {}, optional |-> {"png_sticker", "tgs_sticker", "webm_sticker"},
     skipped |-> {"png_sticker", "tgs_sticker", "webm_sticker"}, group |-> FALSE]
AddStickerToSet ==
    [endpoint |-> "addStickerToSet", nonfile |-> {"user_id", "name", "emojis"},
     required |-> {}, optional |-> {"png_sticker", "tgs_sticker", "webm_sticker"},
     skipped |-> {"png_sticker", "tgs_sticker", "webm_sticker"}, group |-> FALSE]
SetStickerSetThumb ==
    [endpoint |-> "setStickerSetThumb", nonfile |-> {"name", "user_id"}, required |-> {},
     optional |-> {"thumb"}, skipped |-> {"thumb"}, group |-> FALSE]

GetMyDefaultAdministratorRights ==
    [endpoint |-> "getMyDefaultAdministratorRights", nonfile |-> {}, required |-> {},
     optional |-> {}, skipped |-> {}, group |-> FALSE]

Methods ==
    {GetMe, GetMyDefaultAdministratorRights, SendPhoto, SendAudio, SendDocument, SendVideo, SendAnimation, SendVoice,
     SendVideoNote, SendMediaGroup, SetChatPhoto, SetWebhook, SendSticker,
     UploadStickerFile, CreateNewStickerSet, AddStickerToSet, SetStickerSetThumb}

DescriptorOf(r) == CHOOSE d \in Methods : d.endpoint = r.method

endpoint(r) == DescriptorOf(r).endpoint

\* Value of a required non-file field; only chat_id varies in the model.
NonFileValue(r, k) ==
    CASE k = "chat_id" -> r.chat_id
      [] k = "user_id" -> JNum(7)
      [] OTHER -> JStr("x")

\* impl<T: Serialize> Params for T: the struct serialised by serde, i.e. the
\* non-file fields, every file field that is not skip_serializing and is
\* not None, and the media array produced by serialize_input_media.
params(r) ==
    LET d == DescriptorOf(r)
        filekeys == {f \in (d.required \cup d.optional) \ d.skipped : r.slots[f] # NoFile}
        keys == d.nonfile \cup filekeys \cup (IF d.group THEN {"media"} ELSE {})
    IN  [k \in keys |->
            IF k \in d.nonfile THEN NonFileValue(r, k)
            ELSE IF k \in filekeys THEN InputFileJson(r.slots[k])
            ELSE serialize_input_media(r.media)]

RECURSIVE InsertAll(_, _)
InsertAll(map, pairs) ==
    IF pairs = <<>> THEN map
    ELSE InsertAll(Insert(map, Head(pairs)[1], Head(pairs)[2]), Tail(pairs))

\* SendMediaGroup::files: idx runs from 0 over the elements in order.
RECURSIVE MediaGroupFiles(_, _, _)
MediaGroupFiles(result, media, idx) ==
    IF media = <<>> THEN result
    ELSE MediaGroupFiles(InsertAll(result, prepare_input_media_file(Head(media), idx)),
                         Tail(media), idx + 1)

\* Methods::files: the default is the empty map; a descriptor with file
\* fields inserts each required field and each optional field that is Some
\* under the field's name.
files(r) ==
    LET d == DescriptorOf(r)
    IN  IF d.group THEN MediaGroupFiles(EmptyMap, r.media, 0)
        ELSE [f \in {x \in d.required \cup d.optional : r.slots[x] # NoFile} |-> r.slots[f]]

----------------------------------------------------------------------------
(* Response envelope: bot::APIResponse and bot::Error.  An Option is a     *)
(* sequence of length at most one.                                         *)
(***************************************************************************)

None == <<>>
Some(v) == <<v>>

APIResponse(ok, error_code, result, description, parameters) ==
    [ok |-> ok, error_code |-> error_code, result |-> result,
     description |-> description, parameters |-> parameters]

NoOutcome == [tag |-> "None", kind |-> "", code |-> 0, message |-> "",
              parameters |-> None, response |-> None]
Ok(response) == [tag |-> "Ok", kind |-> "", code |-> 0, message |-> "",
                 parameters |-> None, response |-> Some(response)]
\* Errors that are not bot::Error: std::io::Error and reqwest::Error.
Err(kind) == [tag |-> "Err", kind |-> kind, code |-> 0, message |-> "",
              parameters |-> None, response |-> None]

\* Mutant: the hints of the envelope are dropped.
new_option_no_parameters(code, message, parameters) ==
    [tag |-> "Err", kind |-> "bot::Error",
     code |-> IF code = None THEN 400 ELSE code[1],
     message |-> IF message = None THEN "server inter error." ELSE message[1],
     parameters |-> None, response |-> None]

\* Error::new_option
new_option(code, message, parameters) ==
    [tag |-> "Err", kind |-> "bot::Error",
     code |-> IF code = None THEN 400 ELSE code[1],
     message |-> IF message = None THEN "server inter error." ELSE message[1],
     parameters |-> parameters, response |-> None]

\* Mutant: an envelope that carries a result counts as a success.
parse_result_wins(self) ==
    IF self.ok \/ self.result # None THEN Ok(self)
    ELSE new_option(self.error_code, self.description, self.parameters)

\* APIResponse::parse
parse(self) ==
    IF self.ok THEN Ok(self)
    ELSE new_option(self.error_code, self.description, self.parameters)

\* What the HTTP client hands back: the status line and the body read as an
\* APIResponse.  Neither make_request nor upload_files looks at the status.
HttpResponse(status, envelope) == [status |-> status, envelope |-> envelope]

\* ReplyResult<R>, what BotApi::send returns: Ok(value) or Err(error).
NoReply == [tag |-> "None", kind |-> "", code |-> 0, message |-> "",
            parameters |-> None, value |-> None]
ReplyOk(R, v) == [tag |-> "Ok", kind |-> "", code |-> 0, message |-> "",
                  parameters |-> None, value |-> Some([type |-> R, json |-> v])]
\* The `?` operator: the error goes on to the caller as it is.
ReplyErr(e) == [tag |-> "Err", kind |-> e.kind, code |-> e.code, message |-> e.message,
                parameters |-> e.parameters, value |-> None]

\* Error::not_found
not_found ==
    [tag |-> "Err", kind |-> "bot::Error", code |-> 404, message |-> "not found",
     parameters |-> None, response |-> None]

\* The types R a caller asks BotApi::send for.
Types == {"i64", "String", "bool", "File", "ChatAdministratorRights", "User"}

\* The fields without a default of types::File, types::ChatAdministratorRights
\* and types::User, with their types; the Option fields may be absent.
Required(R) ==
    CASE R = "File" -> [file_id |-> "String", file_unique_id |-> "String"]
      [] R = "ChatAdministratorRights" ->
            [is_anonymous |-> "bool", can_manage_chat |-> "bool",
             can_delete_messages |-> "bool", can_manage_video_chats |-> "bool",
             can_restrict_members |-> "bool", can_promote_members |-> "bool",
             can_change_info |-> "bool", can_invite_users |-> "bool"]
      [] R = "User" -> [id |-> "i64", is_bot |-> "bool", first_name |-> "String"]
      [] OTHER -> EmptyMap

\* serde's Deserialize for a primitive: an i64 is read from a JSON number,
\* a String from a JSON string, a bool from a JSON boolean.
Primitive(v, R) ==
    \/ R = "i64" /\ v.t = "num"
    \/ R = "String" /\ v.t = "str"
    \/ R = "bool" /\ v.t = "bool"

\* serde's Deserialize for R: a primitive as above; a derived struct is read
\* from a JSON object that has every required field with a value of the
\* field's type (other keys are ignored); anything else is an invalid type.
Matches(v, R) ==
    \/ Primitive(v, R)
    \/ /\ R \in {"File", "ChatAdministratorRights", "User"}
       /\ v.t = "obj"
       /\ \A f \in DOMAIN Required(R) :
             f \in DOMAIN v.o /\ Primitive(v.o[f], Required(R)[f])

\* Mutant: a result of the wrong shape decodes to the default value of R.
from_value_default(v, R) ==
    IF Matches(v, R) THEN ReplyOk(R, v) ELSE ReplyOk(R, JNull)

\* serde_json::from_value::<R>(result)?
from_value(v, R) ==
    IF Matches(v, R) THEN ReplyOk(R, v) ELSE ReplyErr(Err("serde_json"))

----------------------------------------------------------------------------
(* Inputs *)

Files ==
    {FileID("AABBCC"), FileURL("http://h/u.jpg"), FileAttach("attach://file-0"),
     FileBytes("b.png", <<1>>), FilePath("/tmp/a.jpg")}

ChatIds == {IntType(1), StringType("@chan")}

\* Items of a media group: every type, with a primary reference and a
\* thumbnail of each sort (absent, reference-only, to upload).
GroupItems ==
    {InputMedia("photo", f, NoFile) :
        f \in {FileID("AABBCC"), FileAttach("attach://file-0"),
               FileBytes("b.png", <<1>>), FilePath("/tmp/a.jpg")}}
    \cup {InputMedia("video", f, t) :
            f \in {FileID("AABBCC"), FileBytes("b.png", <<1>>)},
            t \in {NoFile, FileID("TT"), FilePath("/tmp/t.jpg")}}
    \cup {InputMedia("animation", FilePath("/tmp/a.jpg"), FileBytes("t.png", <<2>>)),
          InputMedia("audio", FileURL("http://h/u.jpg"), FileBytes("t.png", <<2>>)),
          InputMedia("document", FileID("AABBCC"), FileAttach("attach://file-1-thumb"))}

SlotAssignments(d) ==
    {s \in [d.required \cup d.optional -> Files \cup {NoFile}] :
        \A f \in d.required : s[f] # NoFile}

Request(d, chat_id, slots, media) ==
    [method |-> d.endpoint, chat_id |-> chat_id, slots |-> slots, media |-> media]

NoRequest == [method |-> "", chat_id |-> JNull, slots |-> EmptyMap, media |-> <<>>]

\* HTTP status codes: one 2xx and one that is not.
Statuses == {200, 502}

\* Results the server sends: a File, a ChatAdministratorRights and a User.
FileJson == JObj([file_id |-> JStr("F1"), file_unique_id |-> JStr("U1")])
RightsJson ==
    JObj([is_anonymous |-> JBool(FALSE), can_manage_chat |-> JBool(TRUE),
          can_delete_messages |-> JBool(TRUE), can_manage_video_chats |-> JBool(FALSE),
          can_restrict_members |-> JBool(FALSE), can_promote_members |-> JBool(FALSE),
          can_change_info |-> JBool(TRUE), can_invite_users |-> JBool(TRUE)])
UserJson == JObj([id |-> JNum(7), is_bot |-> JBool(TRUE), first_name |-> JStr("bot")])

Envelopes ==
    {APIResponse(ok, c, r, d, p) :
        ok \in BOOLEAN, c \in {None, Some(403)},
        r \in {None, Some(JNum(42)), Some(JStr("done")), Some(FileJson), Some(RightsJson),
               Some(UserJson)},
        d \in {None, Some("Forbidden")}, p \in {None, Some([migrate_to_chat_id |-> None, retry_after |-> Some(5)])}}

----------------------------------------------------------------------------
(* The dispatch: BotApi::request, BotApi::upload_files, BotApi::make_request *)

\* multipart::Part::text(..) and a Part with a file name, under a field name.
TextPart(name, text) ==
    [name |-> name, kind |-> "text", text |-> text, file_name |-> "", content |-> <<>>]
BinaryPart(name, part) ==
    [name |-> name, kind |-> "binary", text |-> "", file_name |-> part.file_name,
     content |-> part.content]

\* Mutant: the closure answers true only when every file needs an upload.
probe_every(r) ==
    /\ DOMAIN files(r) # {}
    /\ \A k \in DOMAIN files(r) : need_upload(files(r)[k])

\* Mutant: the closure answers true as soon as there is a file.
probe_any_file(r) == DOMAIN files(r) # {}

\* The closure of BotApi::request: does any file of request.files() need an
\* upload.
probe(r) == \E k \in DOMAIN files(r) : need_upload(files(r)[k])

\* upload_files, first loop: one text part per parameter, carrying
\* param_value.to_string().
ParamParts(ps) == SetToBag({TextPart(k, JsonText(ps[k])) : k \in DOMAIN ps})

\* The BotApi value: url and token (the reqwest client has no state of
\* interest here).
BotApi(base, token) == [url |-> base, token |-> token]

\* The value the callers of the model hold.
TheBot == BotApi("https://api.telegram.org/bot", "T0")

\* BotApi::method: format!("{}{}/{}", self.url, self.token, endpoint)
method(self, ep) == self.url \o self.token \o "/" \o ep

\* The function of BotApi a caller invoked, and the value it runs on.
Call(name, self) == [name |-> name, self |-> self]
NoCall == [name |-> "", self |-> BotApi("", "")]

\* No Error is being formatted.
NoDisplay == [stack |-> <<>>, written |-> 0, state |-> "none"]

\* No File::open call yet.
NoOpens == [tried |-> 0, failed |-> 0]

\* InputFile::data called on f with outcome res: only a FilePath opens a
\* file, once per call.
Opened(f, res) ==
    IF f.tag = "FilePath"
    THEN [tried |-> opens.tried + 1,
          failed |-> opens.failed + (IF res.kind = "Err" THEN 1 ELSE 0)]
    ELSE opens

\* The locals of a dispatch that has not started.
Idle ==
    [pc |-> "idle", request |-> NoRequest, params_map |-> EmptyMap,
     files_map |-> EmptyMap, pending |-> {}, path |-> "NONE", form |-> EmptyBag,
     body |-> None, sent |-> 0, outcome |-> NoOutcome, received |-> None,
     expect |-> "", reply |-> NoReply, opens |-> NoOpens, call |-> NoCall,
     posted |-> "", display |-> NoDisplay]

Init ==
    /\ pc = "idle"
    /\ request = NoRequest
    /\ params_map = EmptyMap
    /\ files_map = EmptyMap
    /\ pending = {}
    /\ path = "NONE"
    /\ form = EmptyBag
    /\ body = None
    /\ sent = 0
    /\ outcome = NoOutcome
    /\ received = None
    /\ expect = ""
    /\ reply = NoReply
    /\ opens = NoOpens
    /\ other = Idle
    /\ call = NoCall
    /\ posted = ""
    /\ display = NoDisplay

\* Mutant: the second call of request.files(), whose map is the one that is
\* encoded, returns only the slots that need an upload.
Send_second_files_differ(r) ==
    /\ pc = "idle"
    /\ request' = r
    /\ params_map' = params(r)
    /\ files_map' = [k \in {x \in DOMAIN files(r) : need_upload(files(r)[x])} |-> files(r)[k]]
    /\ pending' = {x \in DOMAIN files(r) : need_upload(files(r)[x])}
    /\ IF probe(r)
       THEN /\ path' = "MULTIPART"
            /\ pc' = "upload_files"
            /\ form' = ParamParts(params(r))
       ELSE /\ path' = "JSON"
            /\ pc' = "request"
            /\ form' = EmptyBag
    /\ body' = None
    /\ sent' = 0
    /\ outcome' = NoOutcome
    /\ received' = None
    /\ expect' = ""
    /\ reply' = NoReply
    /\ opens' = NoOpens
    /\ posted' = ""
    /\ UNCHANGED <<other, display>>

\* Mutant: the media sequence of the request is rewritten in place.
Send_in_place(r) ==
    /\ pc = "idle"
    /\ request' = [r EXCEPT !.media = [i \in 1..Len(r.media) |->
                                          prepare_input_media_param(r.media[i], i - 1)]]
    /\ params_map' = params(r)
    /\ files_map' = files(r)
    /\ pending' = DOMAIN files(r)
    /\ IF probe(r)
       THEN /\ path' = "MULTIPART"
            /\ pc' = "upload_files"
            /\ form' = ParamParts(params(r))
       ELSE /\ path' = "JSON"
            /\ pc' = "request"
            /\ form' = EmptyBag
    /\ body' = None
    /\ sent' = 0
    /\ outcome' = NoOutcome
    /\ received' = None
    /\ expect' = ""
    /\ reply' = NoReply
    /\ opens' = NoOpens
    /\ posted' = ""
    /\ UNCHANGED <<other, display>>

\* BotApi::send called with a descriptor: BotApi::request up to its first
\* await.  params() comes first, then the probe, then either upload_files
\* (which starts by turning the parameters into text parts) or the loop over
\* request.files() of the JSON path.  params() returns Ok for every request
\* struct: serialising these structs to a JSON object does not fail.  Who
\* called (`call`) is set by the action that makes the call.
Send(r) ==
    /\ pc = "idle"
    /\ request' = r
    /\ params_map' = params(r)
    /\ files_map' = files(r)
    /\ pending' = DOMAIN files(r)
    /\ IF probe(r)
       THEN /\ path' = "MULTIPART"
            /\ pc' = "upload_files"
            /\ form' = ParamParts(params(r))
       ELSE /\ path' = "JSON"
            /\ pc' = "request"
            /\ form' = EmptyBag
    /\ body' = None
    /\ sent' = 0
    /\ outcome' = NoOutcome
    /\ received' = None
    /\ expect' = ""
    /\ reply' = NoReply
    /\ opens' = NoOpens
    /\ posted' = ""
    /\ UNCHANGED <<other, display>>

\* BotApi::request returns: its locals are dropped.  The encoding it had
\* chosen, the requests it issued and the files it opened stay on record
\* until the caller has the reply.
Return(result) ==
    /\ pc' = "done"
    /\ outcome' = result
    /\ request' = NoRequest
    /\ params_map' = EmptyMap
    /\ files_map' = EmptyMap
    /\ pending' = {}
    /\ form' = EmptyBag
    /\ body' = None
    /\ posted' = ""
    /\ UNCHANGED <<path, sent, expect, reply, other, call, display>>

\* Mutant: a slot that resolves to text gets no part.
UploadFile_skip_text(file_key) ==
    /\ pc = "upload_files"
    /\ file_key \in pending
    /\ \E res \in DataOutcomes(files_map[file_key]) :
          /\ opens' = Opened(files_map[file_key], res)
          /\ CASE res.kind = "Err" -> Return(Err("io")) /\ UNCHANGED received
            [] res.kind = "Text" ->
                 /\ pending' = pending \ {file_key}
                 /\ UNCHANGED <<pc, request, params_map, files_map, path, form, body, sent, outcome,
                                received, expect, reply, other, call, posted, display>>
            [] res.kind = "Part" ->
                 /\ form' = form (+) SetToBag({BinaryPart(file_key, res)})
                 /\ pending' = pending \ {file_key}
                 /\ UNCHANGED <<pc, request, params_map, files_map, path, body, sent, outcome,
                            received, expect, reply, other, call, posted, display>>

\* Mutant: a file that cannot be opened is left out and the loop goes on.
UploadFile_skip_failed(file_key) ==
    /\ pc = "upload_files"
    /\ file_key \in pending
    /\ \E res \in DataOutcomes(files_map[file_key]) :
          /\ opens' = Opened(files_map[file_key], res)
          /\ pending' = pending \ {file_key}
          /\ form' = (CASE res.kind = "Err" -> form
                        [] res.kind = "Text" ->
                             form (+) SetToBag({TextPart(file_key, res.text)})
                        [] res.kind = "Part" ->
                             form (+) SetToBag({BinaryPart(file_key, res)}))
          /\ UNCHANGED <<pc, request, params_map, files_map, path, body, sent, outcome,
                         received, expect, reply, other, call, posted, display>>

\* Mutant: the part is attached under the name of whichever slot comes
\* first among those not yet visited.
UploadFile_first_pending(file_key) ==
    /\ pc = "upload_files"
    /\ file_key \in pending
    /\ \E res \in DataOutcomes(files_map[file_key]) :
          /\ opens' = Opened(files_map[file_key], res)
          /\ CASE res.kind = "Err" -> Return(Err("io")) /\ UNCHANGED received
            [] res.kind = "Text" ->
                 /\ form' = form (+) SetToBag({TextPart(CHOOSE k \in pending : TRUE,
                                                        res.text)})
                 /\ pending' = pending \ {file_key}
                 /\ UNCHANGED <<pc, request, params_map, files_map, path, body, sent, outcome,
                                received, expect, reply, other, call, posted, display>>
            [] res.kind = "Part" ->
                 /\ form' = form (+) SetToBag({BinaryPart(CHOOSE k \in pending : TRUE,
                                                          res)})
                 /\ pending' = pending \ {file_key}
                 /\ UNCHANGED <<pc, request, params_map, files_map, path, body, sent, outcome,
                                received, expect, reply, other, call, posted, display>>

\* upload_files, second loop, one iteration: file_value.data().await?
UploadFile(file_key) ==
    /\ pc = "upload_files"
    /\ file_key \in pending
    /\ \E res \in DataOutcomes(files_map[file_key]) :
          /\ opens' = Opened(files_map[file_key], res)
          /\ CASE res.kind = "Err" -> Return(Err("io")) /\ UNCHANGED received
            [] res.kind = "Text" ->
                 /\ form' = form (+) SetToBag({TextPart(file_key, res.text)})
                 /\ pending' = pending \ {file_key}
                 /\ UNCHANGED <<pc, request, params_map, files_map, path, body, sent, outcome,
                            received, expect, reply, other, call, posted, display>>
            [] res.kind = "Part" ->
                 /\ form' = form (+) SetToBag({BinaryPart(file_key, res)})
                 /\ pending' = pending \ {file_key}
                 /\ UNCHANGED <<pc, request, params_map, files_map, path, body, sent, outcome,
                            received, expect, reply, other, call, posted, display>>

\* Mutant: the text is inserted under the endpoint name instead of the key.
InsertFile_wrong_key(key) ==
    /\ pc = "request"
    /\ key \in pending
    /\ \E res \in DataOutcomes(files_map[key]) :
          /\ res.kind = "Text"
          /\ opens' = Opened(files_map[key], res)
          /\ params_map' = Insert(params_map, endpoint(request), JStr(res.text))
          /\ pending' = pending \ {key}
          /\ UNCHANGED <<pc, request, files_map, path, form, body, sent, outcome,
                            received, expect, reply, other, call, posted, display>>

\* BotApi::request, loop of the JSON path, one iteration: a Text is inserted
\* into params under the slot name, anything else is skipped.
InsertFile(key) ==
    /\ pc = "request"
    /\ key \in pending
    /\ \E res \in DataOutcomes(files_map[key]) :
          /\ opens' = Opened(files_map[key], res)
          /\ CASE res.kind = "Err" -> Return(Err("io")) /\ UNCHANGED received
            [] res.kind = "Text" ->
                 /\ params_map' = Insert(params_map, key, JStr(res.text))
                 /\ pending' = pending \ {key}
                 /\ UNCHANGED <<pc, request, files_map, path, form, body, sent, outcome,
                            received, expect, reply, other, call, posted, display>>
            [] res.kind = "Part" ->
                 /\ pending' = pending \ {key}
                 /\ UNCHANGED <<pc, request, params_map, files_map, path, form, body, sent, outcome,
                                received, expect, reply, other, call, posted, display>>

\* upload_files: client.post(..).multipart(form).send()
PostForm ==
    /\ pc = "upload_files"
    /\ pending = {}
    /\ pc' = "http"
    /\ sent' = sent + 1
    /\ posted' = method(call.self, endpoint(request))
    /\ UNCHANGED <<request, params_map, files_map, pending, path, form, body, outcome,
                   received, expect, reply, opens, other, call, display>>

\* make_request: client.post(..).json(&params).send()
PostJson ==
    /\ pc = "request"
    /\ pending = {}
    /\ pc' = "http"
    /\ body' = Some(params_map)
    /\ sent' = sent + 1
    /\ posted' = method(call.self, endpoint(request))
    /\ UNCHANGED <<request, params_map, files_map, pending, path, form, outcome,
                   received, expect, reply, opens, other, call, display>>

\* Mutant: a multipart request that fails is tried again as JSON.
TransportError_fallback ==
    /\ pc = "http"
    /\ IF path = "MULTIPART"
       THEN /\ pc' = "request"
            /\ path' = "JSON"
            /\ UNCHANGED <<request, params_map, files_map, pending, form, body, sent,
                           outcome, received, expect, reply, opens, other, call, posted, display>>
       ELSE /\ Return(Err("reqwest"))
            /\ UNCHANGED <<received, opens>>

\* send().await? or json::<APIResponse>().await? fails.
TransportError ==
    /\ pc = "http"
    /\ Return(Err("reqwest"))
    /\ UNCHANGED <<received, opens>>

\* Mutant: upload_files hands the envelope back without parsing it.
Receive_form_unparsed(status, response) ==
    /\ pc = "http"
    /\ received' = Some(HttpResponse(status, response))
    /\ Return(IF path = "MULTIPART" THEN Ok(response) ELSE parse(response))
    /\ UNCHANGED opens

\* A response arrives with any status; its body is read as an APIResponse
\* and parsed.  The status is not looked at.
Receive(status, response) ==
    /\ pc = "http"
    /\ received' = Some(HttpResponse(status, response))
    /\ Return(parse(response))
    /\ UNCHANGED opens

\* Mutant: a transport failure is answered with the default value of R.
SendReturn_swallow(R) ==
    /\ pc = "done"
    /\ pc' = "replied"
    /\ expect' = R
    /\ reply' = IF outcome.tag = "Err"
                THEN (IF outcome.kind = "reqwest" THEN ReplyOk(R, JNull)
                      ELSE ReplyErr(outcome))
                ELSE IF outcome.response[1].result # None
                     THEN from_value(outcome.response[1].result[1], R)
                     ELSE ReplyErr(not_found)
    /\ UNCHANGED <<request, params_map, files_map, pending, path, form, body, sent,
                   outcome, received, opens, other, call, posted, display>>

\* Mutant: an Ok envelope without a result is answered with a null value.
SendReturn_missing_is_ok(R) ==
    /\ pc = "done"
    /\ pc' = "replied"
    /\ expect' = R
    /\ reply' = IF outcome.tag = "Err" THEN ReplyErr(outcome)
                ELSE IF outcome.response[1].result # None
                     THEN from_value(outcome.response[1].result[1], R)
                     ELSE ReplyOk(R, JNull)
    /\ UNCHANGED <<request, params_map, files_map, pending, path, form, body, sent,
                   outcome, received, opens, other, call, posted, display>>

\* BotApi::send after self.request(&request).await: an Err goes to the
\* caller through `?`; an Ok envelope with a result is decoded as R; an Ok
\* envelope without a result is Error::not_found().
SendReturn(R) ==
    /\ pc = "done"
    /\ pc' = "replied"
    /\ expect' = R
    /\ reply' = IF outcome.tag = "Err" THEN ReplyErr(outcome)
                ELSE IF outcome.response[1].result # None
                     THEN from_value(outcome.response[1].result[1], R)
                     ELSE ReplyErr(not_found)
    /\ UNCHANGED <<request, params_map, files_map, pending, path, form, body, sent,
                   outcome, received, opens, other, call, posted, display>>

\* Mutant: the value is handed out whatever get_me returned.
NewReturn_unchecked ==
    /\ pc = "replied"
    /\ call.name = "new"
    /\ pc' = "new_returned"
    /\ reply' = ReplyOk("BotApi", JObj([url |-> JStr(call.self.url),
                                        token |-> JStr(call.self.token)]))
    /\ UNCHANGED <<request, params_map, files_map, pending, path, form, body, sent,
                   outcome, received, expect, opens, other, call, posted, display>>

\* BotApi::new after result.get_me().await: Ok(_) becomes Ok(result), the
\* value built from the token and the url; an Err goes to the caller.
NewReturn ==
    /\ pc = "replied"
    /\ call.name = "new"
    /\ pc' = "new_returned"
    /\ reply' = IF reply.tag = "Ok"
                THEN ReplyOk("BotApi", JObj([url |-> JStr(call.self.url),
                                             token |-> JStr(call.self.token)]))
                ELSE reply
    /\ UNCHANGED <<request, params_map, files_map, pending, path, form, body, sent,
                   outcome, received, expect, opens, other, call, posted, display>>

\* The caller formats the bot::Error it got with Display (to_string(),
\* println!("{}", err)): Error::fmt is entered.
Format ==
    /\ pc \in {"replied", "new_returned"}
    /\ reply.tag = "Err"
    /\ reply.kind = "bot::Error"
    /\ display = NoDisplay
    /\ display' = [stack |-> <<"Error">>, written |-> 0, state |-> "fmt"]
    /\ UNCHANGED <<pc, request, params_map, files_map, pending, path, form, body, sent,
                   outcome, received, expect, reply, opens, other, call, posted>>

\* <Error as Display>::fmt: Display::fmt(&self, f) with self: &Error, so
\* the callee is <&Error as Display>::fmt.  Nothing is written to f.
fmt ==
    /\ display.state = "fmt"
    /\ Len(display.stack) < MaxDepth
    /\ display.stack[Len(display.stack)] = "Error"
    /\ display' = [display EXCEPT !.stack = Append(@, "&Error")]
    /\ UNCHANGED <<pc, request, params_map, files_map, pending, path, form, body, sent,
                   outcome, received, expect, reply, opens, other, call, posted>>

\* <&T as Display>::fmt of core: it forwards to <T as Display>::fmt(*self),
\* here to Error::fmt again, on the same Error.
fmt_ref ==
    /\ display.state = "fmt"
    /\ Len(display.stack) < MaxDepth
    /\ display.stack[Len(display.stack)] = "&Error"
    /\ display' = [display EXCEPT !.stack = Append(@, "Error")]
    /\ UNCHANGED <<pc, request, params_map, files_map, pending, path, form, body, sent,
                   outcome, received, expect, reply, opens, other, call, posted>>

\* The stack has no room for one more frame: the process is aborted.
StackOverflow ==
    /\ display.state = "fmt"
    /\ Len(display.stack) = MaxDepth
    /\ display' = [display EXCEPT !.state = "aborted"]
    /\ UNCHANGED <<pc, request, params_map, files_map, pending, path, form, body, sent,
                   outcome, received, expect, reply, opens, other, call, posted>>

\* The caller of BotApi::send takes the result; the BotApi value is free for
\* the next call.
Complete ==
    /\ \/ pc = "replied" /\ call.name # "new"
       \/ pc = "new_returned"
    /\ display = NoDisplay
    /\ pc' = "idle"
    /\ outcome' = NoOutcome
    /\ sent' = 0
    /\ path' = "NONE"
    /\ received' = None
    /\ expect' = ""
    /\ reply' = NoReply
    /\ opens' = NoOpens
    /\ call' = NoCall
    /\ UNCHANGED <<request, params_map, files_map, pending, form, body, other, posted,
                   display>>

\* A caller dispatches any request.
Dispatch ==
    /\ pc = "idle"
    /\ \E d \in Methods :
         \E c \in (IF "chat_id" \in d.nonfile THEN ChatIds ELSE {JNull}) :
           \E s \in SlotAssignments(d) :
             \E n \in (IF d.group THEN 0..MaxGroup ELSE {0}) :
               \E g \in [1..n -> GroupItems] :
                 Send(Request(d, c, s, g)) /\ call' = Call("send", TheBot)

\* BotApi::get_me: self.send(methods::GetMe::new()) as ReplyResult<types::User>
get_me ==
    /\ pc = "idle"
    /\ Send(Request(GetMe, JNull, EmptyMap, <<>>))
    /\ call' = Call("get_me", TheBot)

\* BotApi::upload_sticker_file: self.send(request) as ReplyResult<bool>
upload_sticker_file(r) ==
    /\ pc = "idle"
    /\ r.method = "uploadStickerFile"
    /\ Send(r)
    /\ call' = Call("upload_sticker_file", TheBot)

\* BotApi::get_my_default_administrator_rights: self.send(request) as
\* ReplyResult<bool>
get_my_default_administrator_rights(r) ==
    /\ pc = "idle"
    /\ r.method = "getMyDefaultAdministratorRights"
    /\ Send(r)
    /\ call' = Call("get_my_default_administrator_rights", TheBot)

\* BotApi::new: the value is built from the token and url.unwrap_or(..),
\* then result.get_me() is awaited.
new(token, base) ==
    /\ pc = "idle"
    /\ Send(Request(GetMe, JNull, EmptyMap, <<>>))
    /\ call' = Call("new", BotApi(IF base = None THEN "https://api.telegram.org/bot"
                                  ELSE base[1], token))

\* The type R each function of BotApi asks BotApi::send for; a caller of
\* send itself asks for any type.
ReplyTypes(name) ==
    CASE name = "get_me" -> {"User"}
      [] name = "new" -> {"User"}
      [] name = "upload_sticker_file" -> {"bool"}
      [] name = "get_my_default_administrator_rights" -> {"bool"}
      [] OTHER -> Types

\* Tokens and custom server urls handed to BotApi::new.
Tokens == {"T1", "T2"}
Urls == {None, Some("http://127.0.0.1:8081/bot")}

\* A caller uses one of the typed functions of BotApi.
CallTyped ==
    \/ get_me
    \/ \E s \in SlotAssignments(UploadStickerFile) :
          upload_sticker_file(Request(UploadStickerFile, JNull, s, <<>>))
    \/ get_my_default_administrator_rights(
          Request(GetMyDefaultAdministratorRights, JNull, EmptyMap, <<>>))
    \/ \E t \in Tokens, u \in Urls : new(t, u)

\* The server answers with any envelope.
Respond ==
    /\ pc = "http"
    /\ \E st \in Statuses, e \in Envelopes : Receive(st, e)

\* BotApi::send hands its result to the caller, who asked for some type R.
Reply ==
    /\ pc = "done"
    /\ \E R \in ReplyTypes(call.name) : SendReturn(R)

Next ==
    \/ Dispatch
    \/ Complete
    \/ \E k \in pending : UploadFile(k)
    \/ \E k \in pending : InsertFile(k)
    \/ PostForm
    \/ PostJson
    \/ TransportError
    \/ Respond
    \/ Reply
    \/ CallTyped
    \/ NewReturn
    \/ Format
    \/ fmt
    \/ fmt_ref
    \/ StackOverflow

Spec == Init /\ [][Next]_vars

----------------------------------------------------------------------------
(* Two dispatches on one BotApi value.  BotApi::send takes &self, so a      *)
(* second call can start and run while the first is suspended at an await. *)
(* Each call's future owns its locals; the BotApi fields (url, token,      *)
(* client) are only read.                                                  *)
(***************************************************************************)

\* The locals of the running dispatch.
Locals ==
    [pc |-> pc, request |-> request, params_map |-> params_map,
     files_map |-> files_map, pending |-> pending, path |-> path, form |-> form,
     body |-> body, sent |-> sent, outcome |-> outcome, received |-> received,
     expect |-> expect, reply |-> reply, opens |-> opens, call |-> call,
     posted |-> posted, display |-> display]

\* Mutant: the slot map lives in the BotApi value and is shared by the calls.
Switch_shared_files ==
    /\ other' = Locals
    /\ pc' = other.pc
    /\ request' = other.request
    /\ params_map' = other.params_map
    /\ files_map' = files_map
    /\ pending' = other.pending
    /\ path' = other.path
    /\ form' = other.form
    /\ body' = other.body
    /\ sent' = other.sent
    /\ outcome' = other.outcome
    /\ received' = other.received
    /\ expect' = other.expect
    /\ reply' = other.reply
    /\ opens' = other.opens
    /\ call' = other.call
    /\ posted' = other.posted
    /\ display' = other.display

\* The executor suspends the running dispatch and resumes the other one:
\* each future goes on with the locals it had.
Switch ==
    /\ other' = Locals
    /\ pc' = other.pc
    /\ request' = other.request
    /\ params_map' = other.params_map
    /\ files_map' = other.files_map
    /\ pending' = other.pending
    /\ path' = other.path
    /\ form' = other.form
    /\ body' = other.body
    /\ sent' = other.sent
    /\ outcome' = other.outcome
    /\ received' = other.received
    /\ expect' = other.expect
    /\ reply' = other.reply
    /\ opens' = other.opens
    /\ call' = other.call
    /\ posted' = other.posted
    /\ display' = other.display

\* Requests of the concurrent callers: two media groups whose first item
\* gets the same token file-0 for different files, a reference-only photo
\* and a document with a local thumbnail.
ConcurrentRequests ==
    {Request(SendMediaGroup, IntType(1), EmptyMap,
             <<InputMedia("photo", FileBytes("b.png", <<1>>), NoFile)>>),
     Request(SendMediaGroup, StringType("@chan"), EmptyMap,
             <<InputMedia("photo", FilePath("/tmp/a.jpg"), NoFile)>>),
     Request(SendPhoto, IntType(1), [photo |-> FileID("AABBCC")], <<>>),
     Request(SendDocument, StringType("@chan"),
             [document |-> FileURL("http://h/u.jpg"), thumb |-> FilePath("/tmp/t.jpg")],
             <<>>)}

\* A caller dispatches one of these requests.
DispatchSome ==
    /\ pc = "idle"
    /\ \E r \in ConcurrentRequests : Send(r) /\ call' = Call("send", TheBot)

\* The server answers a concurrent caller with an envelope that has ok,
\* error_code and a numeric result or none.
ConcurrentEnvelopes ==
    {e \in Envelopes : /\ e.description = None
                       /\ e.parameters = None
                       /\ e.result \in {None, Some(JNum(42))}}

RespondSome ==
    /\ pc = "http"
    /\ \E st \in Statuses, e \in ConcurrentEnvelopes : Receive(st, e)

\* The concurrent callers ask BotApi::send for an i64 or a String.
ReplySome ==
    /\ pc = "done"
    /\ \E R \in {"i64", "String"} : SendReturn(R)

NextConc ==
    \/ DispatchSome
    \/ Complete
    \/ \E k \in pending : UploadFile(k)
    \/ \E k \in pending : InsertFile(k)
    \/ PostForm
    \/ PostJson
    \/ TransportError
    \/ RespondSome
    \/ ReplySome
    \/ Switch

SpecConc == Init /\ [][NextConc]_vars

----------------------------------------------------------------------------
(* Properties *)

\* A dispatch is between the call of BotApi::request and its return.
Active == pc \in {"upload_files", "request", "http"}

UploadTags == {"FileBytes", "FilePath"}
ReferenceTags == {"FileID", "FileURL", "FileAttach"}

\* C1: a request whose file slot set holds at least one FileBytes or
\* FilePath reference is on the multipart path at every point of its
\* dispatch: it never runs the JSON loop and never hands a JSON body to the
\* client, however many of its other slots are reference-only.
C1_UploadPicksMultipart ==
    (Active /\ \E k \in DOMAIN files_map : files_map[k].tag \in UploadTags)
        => /\ path = "MULTIPART"
           /\ pc # "request"
           /\ body = None

\* C1 witness: a multipart form has been posted for a request that mixes a
\* reference-only slot with a slot to upload.
C1_Witness ==
    /\ pc = "http"
    /\ path = "MULTIPART"
    /\ sent = 1
    /\ \E k \in DOMAIN files_map : files_map[k].tag \in ReferenceTags
    /\ \E k \in DOMAIN files_map : files_map[k].tag \in UploadTags

\* C2: a request whose file slot set is empty or holds only FileID, FileURL
\* and FileAttach references is on the JSON path at every point of its
\* dispatch and never builds a multipart form; getMe, which keeps the
\* default files(), has an empty slot set and so is sent as JSON.
C2_ReferenceOnlyPicksJson ==
    /\ (Active /\ \A k \in DOMAIN files_map : files_map[k].tag \in ReferenceTags)
          => /\ path = "JSON"
             /\ pc # "upload_files"
             /\ form = EmptyBag
    /\ (Active /\ request.method = "getMe")
          => /\ files_map = EmptyMap
             /\ path = "JSON"

\* C2 witness: a JSON body has been posted for a request all of whose slots
\* are reference-only, one of them an attach token.
C2_Witness ==
    /\ pc = "http"
    /\ path = "JSON"
    /\ body # None
    /\ Cardinality(DOMAIN files_map) >= 2
    /\ \E k \in DOMAIN files_map : files_map[k].tag = "FileAttach"

----------------------------------------------------------------------------
(* Media groups *)

InGroup == Active /\ request.method = "sendMediaGroup"

\* The rewritten media array, as it stands in the parameters.
MediaArray == params_map["media"].a

MediaFields == {"media", "thumb"}

\* The references of the request's media sequence, by position (from 1) and
\* field; an absent thumbnail is no reference.
Refs ==
    {x \in (1..Len(request.media)) \X MediaFields : request.media[x[1]][x[2]] # NoFile}
Original(x) == request.media[x[1]][x[2]]
UploadRefs == {x \in Refs : Original(x).tag \in UploadTags}

\* "file-{i}" and "file-{i}-thumb" for the 0-based position i = x[1] - 1.
SlotName(x) ==
    "file-" \o ToString(x[1] - 1) \o (IF x[2] = "thumb" THEN "-thumb" ELSE "")
Token(x) == "attach://" \o SlotName(x)

\* Places of the rewritten array that hold a string of the synthetic form
\* "attach://file-{j}" or "attach://file-{j}-thumb".
TokenPlaces ==
    {x \in (1..Len(MediaArray)) \X MediaFields :
        /\ x[2] \in DOMAIN MediaArray[x[1]].o
        /\ MediaArray[x[1]].o[x[2]].t = "str"
        /\ \E y \in (1..(Len(MediaArray) + 1)) \X MediaFields :
              MediaArray[x[1]].o[x[2]].s = Token(y)}
Rewritten(x) == MediaArray[x[1]].o[x[2]]

\* Places of the rewritten array whose reference is not the original one.
Replaced ==
    {x \in Refs : x[2] \in DOMAIN MediaArray[x[1]].o
                  /\ Rewritten(x) # InputFileJson(Original(x))}

C4_ThumbnailLikePrimary ==
    InGroup =>
        \A x \in Refs :
            x[2] = "thumb" =>
                IF Original(x).tag \in UploadTags
                THEN /\ "thumb" \in DOMAIN MediaArray[x[1]].o
                     /\ Rewritten(x) = JStr(Token(x))
                     /\ SlotName(x) \in DOMAIN files_map
                     /\ files_map[SlotName(x)] = Original(x)
                ELSE /\ "thumb" \in DOMAIN MediaArray[x[1]].o
                     /\ Rewritten(x) = InputFileJson(Original(x))

\* C5: the rewritten item of position i carries the primary reference
\* unchanged when it needs no upload, and "attach://file-{i}", i counted
\* from 0, when it does.
C5_PrimaryRewrite ==
    InGroup =>
        /\ Len(MediaArray) = Len(request.media)
        /\ \A i \in 1..Len(request.media) :
              /\ "media" \in DOMAIN MediaArray[i].o
              /\ MediaArray[i].o["media"] =
                    IF request.media[i].media.tag \in UploadTags
                    THEN JStr("attach://file-" \o ToString(i - 1))
                    ELSE JStr(request.media[i].media.s)

\* C5 witness: a posted group whose first item is reference-only and whose
\* third item is to upload.
C5_Witness ==
    /\ InGroup
    /\ pc = "http"
    /\ Len(request.media) >= 3
    /\ request.media[1].media.tag \in ReferenceTags
    /\ request.media[3].media.tag \in UploadTags
    /\ MediaArray[3].o["media"] = JStr("attach://file-2")

\* The parts of the form of one kind, as a bag.
PartsOfKind(kind) == [p \in {q \in DOMAIN form : q.kind = kind} |-> form[p]]
\* How many parts of the form have this name and kind.
CountParts(name, kind) ==
    BagCardinality([p \in {q \in DOMAIN form : q.name = name /\ q.kind = kind} |-> form[p]])

Posted(enc) == pc = "http" /\ path = enc

\* C6: the slots of a sendMediaGroup request are those of its references to
\* upload and no others; without such a reference the group goes out as
\* JSON, with one it goes out as multipart with as many binary parts as
\* references to upload; items FileID, FileBytes, FilePath give the two
\* binary parts "file-1" and "file-2".
C6_GroupPartsAreUploads ==
    InGroup =>
        /\ \A k \in DOMAIN files_map : files_map[k].tag \in UploadTags
        /\ Cardinality(DOMAIN files_map) = Cardinality(UploadRefs)
        /\ UploadRefs = {} => path = "JSON" /\ files_map = EmptyMap
        /\ UploadRefs # {} => path = "MULTIPART"
        /\ Posted("MULTIPART") =>
              /\ BagCardinality(PartsOfKind("binary")) = Cardinality(UploadRefs)
              /\ {p.name : p \in DOMAIN PartsOfKind("binary")}
                    = {SlotName(x) : x \in UploadRefs}
        /\ ( /\ Posted("MULTIPART")
             /\ Len(request.media) = 3
             /\ \A i \in 1..3 : request.media[i].thumb = NoFile
             /\ request.media[1].media.tag = "FileID"
             /\ request.media[2].media.tag = "FileBytes"
             /\ request.media[3].media.tag = "FilePath" )
           => /\ BagCardinality(PartsOfKind("binary")) = 2
              /\ {p.name : p \in DOMAIN PartsOfKind("binary")} = {"file-1", "file-2"}

\* C6 witness: the group FileID, FileBytes, FilePath has been posted as
\* multipart.
C6_Witness ==
    /\ InGroup
    /\ Posted("MULTIPART")
    /\ Len(request.media) = 3
    /\ \A i \in 1..3 : request.media[i].thumb = NoFile
    /\ request.media[1].media.tag = "FileID"
    /\ request.media[2].media.tag = "FileBytes"
    /\ request.media[3].media.tag = "FilePath"
    /\ BagCardinality(form) = 4

----------------------------------------------------------------------------
(* Parameters, form and body *)

\* C7 as stated: no key of params() is a slot name of files(), so that no
\* two parts of a posted form have the same name.
C7_ParamsHoldNoFileField ==
    /\ Active => (DOMAIN params(request)) \cap (DOMAIN files_map) = {}
    /\ Posted("MULTIPART") =>
          \A p \in DOMAIN form :
              /\ form[p] = 1
              /\ \A q \in DOMAIN form : q.name = p.name => q = p

\* C8: the posted form has one text part for each parameter, named by its
\* key, and one part for each file slot, named by the slot: binary when the
\* reference is to upload, text with the wrapped string when it is not; it
\* has no other part.  sendPhoto with a FilePath has one binary part, named
\* "photo".
C8_FormParts ==
    Posted("MULTIPART") =>
        /\ BagCardinality(form)
              = Cardinality(DOMAIN params_map) + Cardinality(DOMAIN files_map)
        /\ \A name \in (DOMAIN params_map) \cup (DOMAIN files_map)
                          \cup {p.name : p \in DOMAIN form} :
              /\ CountParts(name, "text")
                    = (IF name \in DOMAIN params_map THEN 1 ELSE 0)
                      + (IF name \in DOMAIN files_map
                            /\ files_map[name].tag \in ReferenceTags THEN 1 ELSE 0)
              /\ CountParts(name, "binary")
                    = (IF name \in DOMAIN files_map
                          /\ files_map[name].tag \in UploadTags THEN 1 ELSE 0)
        /\ \A k \in DOMAIN files_map :
              files_map[k].tag \in ReferenceTags =>
                  \E p \in DOMAIN form :
                      p.name = k /\ p.kind = "text" /\ p.text = files_map[k].s
        /\ (request.method = "sendPhoto" /\ request.slots["photo"].tag = "FilePath")
              => /\ BagCardinality(PartsOfKind("binary")) = 1
                 /\ \A p \in DOMAIN PartsOfKind("binary") : p.name = "photo"

\* C8 witness: a form with a parameter part, a text slot part and a binary
\* slot part has been posted for sendVideoNote.
C8_Witness ==
    /\ Posted("MULTIPART")
    /\ request.method = "sendVideoNote"
    /\ CountParts("chat_id", "text") = 1
    /\ CountParts("video_note", "text") = 1
    /\ CountParts("thumb", "binary") = 1

\* C9: the posted JSON body is the parameter map with the wrapped string of
\* every file slot under the slot's name, and nothing else; sendPhoto with
\* chat_id 1 and FileID("AABBCC") gives {"chat_id":1,"photo":"AABBCC"}.
C9_JsonBody ==
    Posted("JSON") =>
        /\ body # None
        /\ DOMAIN body[1] = (DOMAIN params(request)) \cup (DOMAIN files_map)
        /\ \A k \in DOMAIN files_map : body[1][k] = JStr(files_map[k].s)
        /\ \A k \in (DOMAIN params(request)) \ (DOMAIN files_map) :
              body[1][k] = params(request)[k]
        /\ ( /\ request.method = "sendPhoto"
             /\ request.chat_id = JNum(1)
             /\ request.slots["photo"] = FileID("AABBCC") )
           => body[1] = [k \in {"chat_id", "photo"} |->
                            IF k = "chat_id" THEN JNum(1) ELSE JStr("AABBCC")]

\* C9 witness: sendPhoto with chat_id 1 and FileID("AABBCC") has been posted
\* as JSON.
C9_Witness ==
    /\ Posted("JSON")
    /\ request.method = "sendPhoto"
    /\ request.chat_id = JNum(1)
    /\ request.slots["photo"] = FileID("AABBCC")
    /\ sent = 1

\* The references of the request in hand: its slots and its media items.
RequestFiles ==
    {files_map[k] : k \in DOMAIN files_map} \cup {Original(x) : x \in Refs}

\* C10: need_upload() is true for FileBytes and FilePath and for no other
\* variant, and data() agrees with it: it returns a Text exactly for the
\* references that need no upload, and a Part for no others; a reference
\* that needs upload gives a Part whenever the open succeeds.  The part the
\* form gets for a resolved slot is binary or text accordingly.
C10_NeedUploadAgreesWithData ==
    Active =>
        /\ \A f \in RequestFiles :
              /\ need_upload(f) <=> f.tag \in UploadTags
              /\ \A ok \in BOOLEAN :
                    /\ data(f, ok).kind = "Text" <=> ~need_upload(f)
                    /\ data(f, ok).kind = "Part" => need_upload(f)
              /\ data(f, TRUE).kind = "Part" <=> need_upload(f)
        /\ path = "MULTIPART" =>
              \A k \in (DOMAIN files_map) \ pending :
                  \E p \in DOMAIN form :
                      /\ p.name = k
                      /\ p.kind = (IF need_upload(files_map[k]) THEN "binary" ELSE "text")
                      /\ p.kind = "text" => p.text = files_map[k].s

\* C10 witness: upload_files has resolved a FilePath slot to a binary part
\* and a FileURL slot to a text part and has one slot left.
C10_Witness ==
    /\ pc = "upload_files"
    /\ pending # {}
    /\ \E k \in (DOMAIN files_map) \ pending :
          files_map[k].tag = "FilePath" /\ CountParts(k, "binary") = 1
    /\ \E k \in (DOMAIN files_map) \ pending :
          files_map[k].tag = "FileURL" /\ CountParts(k, "text") = 1

----------------------------------------------------------------------------
(* The response envelope and the reply of BotApi::send *)

\* BotApi::request has returned; the caller may already have the reply.
Returned == pc \in {"done", "replied"}

\* An HTTP response was read as an envelope.
Answered == Returned /\ received # None

Envelope == received[1].envelope

\* C11: once a response has been read, an envelope with ok=false has made
\* APIResponse::parse return a bot::Error whatever else the envelope holds
\* (a result included), with the envelope's error_code as its code when
\* there is one; an envelope with ok=true has made it return Ok with that
\* envelope, whatever else it holds.
C11_OkFieldDecides ==
    Answered =>
        /\ ~Envelope.ok =>
              /\ outcome.tag = "Err"
              /\ outcome.kind = "bot::Error"
              /\ outcome.response = None
              /\ Envelope.error_code # None => outcome.code = Envelope.error_code[1]
        /\ Envelope.ok =>
              /\ outcome.tag = "Ok"
              /\ outcome.response = Some(Envelope)

\* C11 witness: an ok=false envelope with error_code 403 and a result
\* present came back as a bot::Error with code 403.
C11_Witness ==
    /\ pc = "done"
    /\ received # None
    /\ ~Envelope.ok
    /\ Envelope.error_code = Some(403)
    /\ Envelope.result = Some(JNum(42))
    /\ outcome.tag = "Err"
    /\ outcome.code = 403

\* C12: a dispatch never has more than one HTTP request behind it; it has
\* exactly one while it waits for the response and when it has returned
\* anything but a failed file resolution, and none in that case.
C12_OneRequestPerDispatch ==
    /\ sent <= 1
    /\ pc = "http" => sent = 1
    /\ pc \in {"idle", "upload_files", "request"} => sent = 0
    /\ Returned => sent = (IF outcome = Err("io") THEN 0 ELSE 1)

\* C12 witness: the single request of a multipart dispatch failed in
\* transport and the dispatch returned with that one request behind it.
C12_Witness ==
    /\ pc = "replied"
    /\ path = "MULTIPART"
    /\ outcome = Err("reqwest")
    /\ sent = 1

\* C13: at most one File::open of a dispatch fails; when one has failed the
\* dispatch has returned an io error, no HTTP request was issued and the
\* caller gets that error.  While the loop runs, File::open has been called
\* once for each FilePath slot visited so far.
C13_OpenFailureIsFatal ==
    /\ opens.failed <= 1
    /\ opens.failed = 1 =>
          /\ Returned
          /\ outcome = Err("io")
          /\ sent = 0
          /\ pc = "replied" => reply = ReplyErr(Err("io"))
    /\ Active =>
          opens.tried =
              Cardinality({k \in (DOMAIN files_map) \ pending :
                              files_map[k].tag = "FilePath"})

\* C13 witness: the second File::open of a dispatch failed after the first
\* slot had been resolved; the caller has an io error and nothing was sent.
C13_Witness ==
    /\ pc = "replied"
    /\ opens.tried >= 2
    /\ opens.failed = 1
    /\ sent = 0
    /\ reply.tag = "Err"
    /\ reply.kind = "io"

\* C14: when BotApi::send has returned, every failure of the dispatch (a
\* failed open, a transport failure, an ok=false envelope, a result that
\* does not decode as R) is an Err in the caller's hands, the very error
\* BotApi::request returned where it returned one; the reply is Ok only
\* for an ok=true envelope with a result, and then holds that result
\* decoded as R.
C14_FailuresReachCaller ==
    pc = "replied" =>
        /\ reply.tag \in {"Ok", "Err"}
        /\ outcome.tag = "Err" => reply = ReplyErr(outcome)
        /\ opens.failed > 0 => reply.tag = "Err" /\ reply.kind = "io"
        /\ (received = None /\ opens.failed = 0) =>
              reply.tag = "Err" /\ reply.kind = "reqwest"
        /\ (received # None /\ ~Envelope.ok) =>
              reply.tag = "Err" /\ reply.kind = "bot::Error"
        /\ (received # None /\ Envelope.ok /\ Envelope.result # None
                /\ ~Matches(Envelope.result[1], expect)) => reply.tag = "Err"
        /\ reply.tag = "Ok" =>
              /\ received # None
              /\ Envelope.ok
              /\ Envelope.result # None
              /\ reply.value = Some([type |-> expect, json |-> Envelope.result[1]])

\* C14 witness: the one request of a dispatch failed in transport and the
\* caller of BotApi::send holds the reqwest error.
C14_Witness ==
    /\ pc = "replied"
    /\ received = None
    /\ sent = 1
    /\ reply.tag = "Err"
    /\ reply.kind = "reqwest"

\* C15: when BotApi::send has returned after an ok=true envelope with a
\* result, the reply is an error of serde_json with no value if the result
\* does not have the shape of R, and Ok with the result decoded as R if it
\* does.
C15_DecodeMismatchIsError ==
    (pc = "replied" /\ received # None /\ Envelope.ok /\ Envelope.result # None) =>
        IF Matches(Envelope.result[1], expect)
        THEN reply = ReplyOk(expect, Envelope.result[1])
        ELSE /\ reply.tag = "Err"
             /\ reply.kind = "serde_json"
             /\ reply.value = None

\* C15 witness: {"ok":true,"result":42} was asked for as a String and the
\* caller holds a serde_json error.
C15_Witness ==
    /\ pc = "replied"
    /\ received # None
    /\ Envelope.ok
    /\ Envelope.result = Some(JNum(42))
    /\ expect = "String"
    /\ reply.tag = "Err"
    /\ reply.kind = "serde_json"

\* C16: a response whose HTTP status is not 2xx has made the dispatch
\* return a bot::Error, and the caller of BotApi::send holds an Err,
\* whatever the body said.
C16_BadStatusIsProtocolError ==
    (Answered /\ received[1].status \notin 200..299) =>
        /\ outcome.tag = "Err"
        /\ outcome.kind = "bot::Error"
        /\ pc = "replied" => reply.tag = "Err"

\* C17: the error made from an ok=false envelope has code 400 when the
\* envelope has no error_code, the message "server inter error." when it
\* has no description, and in every case the envelope's parameters as they
\* came; the caller of BotApi::send gets the same three.
C17_DefaultsAndHints ==
    (Answered /\ ~Envelope.ok) =>
        /\ Envelope.error_code = None => outcome.code = 400
        /\ Envelope.description = None => outcome.message = "server inter error."
        /\ Envelope.description # None => outcome.message = Envelope.description[1]
        /\ outcome.parameters = Envelope.parameters
        /\ pc = "replied" =>
              /\ reply.code = outcome.code
              /\ reply.message = outcome.message
              /\ reply.parameters = Envelope.parameters

\* C17 witness: an ok=false envelope with neither error_code nor
\* description but with retry_after 5 reached the caller as code 400 with
\* the default message and retry_after 5.
C17_Witness ==
    /\ pc = "replied"
    /\ received # None
    /\ ~Envelope.ok
    /\ Envelope.error_code = None
    /\ Envelope.description = None
    /\ reply.code = 400
    /\ reply.message = "server inter error."
    /\ reply.parameters = Some([migrate_to_chat_id |-> None, retry_after |-> Some(5)])

\* The step in which the running loop resolves slot k.
Resolves(k) == k \in pending /\ pending' = pending \ {k}

\* C18: a step that resolves a FileID, FileURL or FileAttach slot never
\* fails: data() gives Text of the wrapped string whatever the file system
\* would answer, no File::open is called, the dispatch goes on, the slot
\* set and the request are as before, and the text goes out under the slot
\* name, as a text part of the form or as a string of the JSON parameters.
C18_ReferenceResolution ==
    [][\A k \in pending :
          (Resolves(k) /\ files_map[k].tag \in ReferenceTags) =>
              /\ \A ok \in BOOLEAN : data(files_map[k], ok) = Text(files_map[k].s)
              /\ opens' = opens
              /\ pc' = pc
              /\ files_map' = files_map
              /\ request' = request
              /\ path = "MULTIPART" =>
                    form' = form (+) SetToBag({TextPart(k, files_map[k].s)})
              /\ path = "JSON" =>
                    params_map' = Insert(params_map, k, JStr(files_map[k].s))]_vars

\* C18 witness: upload_files has resolved a FileURL slot to a text part
\* with the URL, has opened no file and has a slot left.
C18_Witness ==
    /\ pc = "upload_files"
    /\ pending # {}
    /\ opens.tried = 0
    /\ \E k \in (DOMAIN files_map) \ pending :
          /\ files_map[k].tag = "FileURL"
          /\ TextPart(k, files_map[k].s) \in DOMAIN form

\* C19: what BotApi::request returns after a response, and what
\* BotApi::send returns then, are functions of the envelope (and of R)
\* alone: the encoding the request went out with does not enter.
C19_SameHandlingOnBothPaths ==
    Answered =>
        /\ path \in {"JSON", "MULTIPART"}
        /\ outcome = parse(Envelope)
        /\ pc = "replied" =>
              reply = (IF ~Envelope.ok
                       THEN ReplyErr(new_option(Envelope.error_code, Envelope.description,
                                                Envelope.parameters))
                       ELSE IF Envelope.result = None THEN ReplyErr(not_found)
                       ELSE from_value(Envelope.result[1], expect))

\* C19 witness: an ok=false envelope answered a multipart request and came
\* back as the error the JSON path gives for it.
C19_Witness ==
    /\ pc = "done"
    /\ path = "MULTIPART"
    /\ received # None
    /\ ~Envelope.ok
    /\ outcome = new_option(Envelope.error_code, Envelope.description, Envelope.parameters)

----------------------------------------------------------------------------
(* Concurrent dispatches *)

\* The form upload_files builds for request r when every open succeeds.
FormOf(r) ==
    ParamParts(params(r))
        (+) SetToBag({IF data(files(r)[k], TRUE).kind = "Text"
                      THEN TextPart(k, data(files(r)[k], TRUE).text)
                      ELSE BinaryPart(k, data(files(r)[k], TRUE)) :
                      k \in DOMAIN files(r)})

\* The JSON body make_request sends for a request r without uploads.
BodyOf(r) ==
    [k \in (DOMAIN params(r)) \cup (DOMAIN files(r)) |->
        IF k \in DOMAIN files(r) THEN JStr(files(r)[k].s) ELSE params(r)[k]]

\* The dispatch with locals L shows nothing but its own request and its own
\* response.
OwnWorkOnly(L) ==
    /\ L.pc = "idle" => L = Idle
    /\ L.pc \in {"upload_files", "request", "http"} =>
          /\ L.path = (IF probe(L.request) THEN "MULTIPART" ELSE "JSON")
          /\ L.files_map = files(L.request)
          /\ L.pending \subseteq DOMAIN files(L.request)
    /\ (L.pc = "http" /\ L.path = "MULTIPART") =>
          L.form = FormOf(L.request) /\ L.body = None
    /\ (L.pc = "http" /\ L.path = "JSON") =>
          L.body = Some(BodyOf(L.request)) /\ L.form = EmptyBag
    /\ (L.pc \in {"done", "replied"} /\ L.received # None) =>
          L.outcome = parse(L.received[1].envelope)
    /\ (L.pc \in {"done", "replied"} /\ L.received = None) =>
          L.outcome = Err(IF L.sent = 0 THEN "io" ELSE "reqwest")

\* C20: with two dispatches interleaved in any way on one BotApi value,
\* each one's encoding, slot map, form or JSON body, and outcome are those
\* of its own request and its own response, and a dispatch that has not
\* started holds nothing of an earlier one.
C20_DispatchesAreIndependent ==
    OwnWorkOnly(Locals) /\ OwnWorkOnly(other)

\* C20 witness: two media-group dispatches are in flight, both with a slot
\* named file-0 that stands for a different file in each, and the running
\* one has posted the form of its own file.
C20_Witness ==
    /\ pc = "http"
    /\ other.pc = "upload_files"
    /\ request # other.request
    /\ "file-0" \in (DOMAIN files_map) \cap (DOMAIN other.files_map)
    /\ files_map["file-0"] # other.files_map["file-0"]
    /\ form = FormOf(request)

----------------------------------------------------------------------------
(* Part names, typed functions, determinism of the dispatch *)

\* Directories and file names the local paths of the model are made of.
Dirs == {"/tmp"}
BaseNames == {"a.jpg", "t.jpg"}

\* The last component of a path.
BaseName(p) ==
    IF \E d \in Dirs, b \in BaseNames : p = d \o "/" \o b
    THEN CHOOSE b \in BaseNames : \E d \in Dirs : p = d \o "/" \o b
    ELSE p

\* C21: the binary part upload_files has built for a resolved FilePath slot
\* has the base name of the path as its file name.
C21_PartNamedByBaseName ==
    (pc \in {"upload_files", "http"} /\ path = "MULTIPART") =>
        \A k \in (DOMAIN files_map) \ pending :
            files_map[k].tag = "FilePath" =>
                \A p \in DOMAIN form :
                    (p.name = k /\ p.kind = "binary") =>
                        p.file_name = BaseName(files_map[k].s)

\* C22: when upload_sticker_file has its answer and the envelope is ok=true
\* with a File object as result, the caller holds Ok with that File.
C22_UploadStickerFileReturnsFile ==
    (pc = "replied" /\ call.name = "upload_sticker_file" /\ received # None
        /\ Envelope.ok /\ Envelope.result = Some(FileJson)) =>
        reply = ReplyOk("File", FileJson)

\* C23: when get_my_default_administrator_rights has its answer and the
\* envelope is ok=true with a ChatAdministratorRights object as result, the
\* caller holds Ok with those rights.
C23_DefaultRightsReturnsRights ==
    (pc = "replied" /\ call.name = "get_my_default_administrator_rights"
        /\ received # None /\ Envelope.ok /\ Envelope.result = Some(RightsJson)) =>
        reply = ReplyOk("ChatAdministratorRights", RightsJson)

PartOf(k) ==
    IF data(files_map[k], TRUE).kind = "Text"
    THEN TextPart(k, data(files_map[k], TRUE).text)
    ELSE BinaryPart(k, data(files_map[k], TRUE))

\* C25: on the multipart path the form is the parameter parts plus, for
\* each slot visited so far, the part of that slot under that slot's name:
\* it depends on which slots have been visited, not on their order.
C25_FormIgnoresSlotOrder ==
    (pc \in {"upload_files", "http"} /\ path = "MULTIPART") =>
        form = ParamParts(params(request))
                  (+) SetToBag({PartOf(k) : k \in (DOMAIN files_map) \ pending})

\* C25 witness: a form with three file slots, which can be visited in six
\* orders, two of them binary with different content, has been posted.
C25_Witness ==
    /\ pc = "http"
    /\ path = "MULTIPART"
    /\ Cardinality(DOMAIN files_map) >= 3
    /\ \E j, k \in DOMAIN files_map :
          /\ files_map[j].tag = "FileBytes"
          /\ files_map[k].tag = "FilePath"
          /\ BinaryPart(j, data(files_map[j], TRUE)) \in DOMAIN form
          /\ BinaryPart(k, data(files_map[k], TRUE)) \in DOMAIN form

\* C26: all through the dispatch of a media group the rewritten array in
\* the parameters has the length of the request's media sequence and, place
\* by place, its item types; the request still holds every reference that
\* needs upload, and that reference is the one in the slot of its place;
\* computing params() and files() again on the request gives the array and
\* the slots of the dispatch; and no step changes the request.
C26_RewriteLeavesRequest ==
    [][/\ InGroup =>
             /\ Len(MediaArray) = Len(request.media)
             /\ \A i \in 1..Len(request.media) :
                   MediaArray[i].o["type"] = JStr(request.media[i].type)
             /\ \A x \in UploadRefs :
                   /\ SlotName(x) \in DOMAIN files_map
                   /\ files_map[SlotName(x)] = Original(x)
             /\ \A k \in DOMAIN files_map :
                   \E x \in UploadRefs : k = SlotName(x)
             /\ params(request)["media"] = params_map["media"]
             /\ files(request) = files_map
       /\ (InGroup /\ InGroup') => request' = request]_vars

\* C26 witness: a group of two or more items has been posted; its array
\* holds an attach token where the request still holds the bytes.
C26_Witness ==
    /\ InGroup
    /\ pc = "http"
    /\ Len(request.media) >= 2
    /\ \E x \in UploadRefs :
          /\ Original(x).tag = "FileBytes"
          /\ Rewritten(x) = JStr(Token(x))

\* C27: formatting a bot::Error never runs out of stack, and Error::fmt is
\* not on the stack twice for the same Error with nothing written.
C27_FmtMakesProgress ==
    /\ display.state # "aborted"
    /\ \/ display.written > 0
       \/ Cardinality({i \in DOMAIN display.stack : display.stack[i] = "Error"}) <= 1

\* C28: when BotApi::send has returned after an ok=true envelope without a
\* result, the reply is the bot::Error with code 404 and message
\* "not found", whatever type was asked for.
C28_MissingResultIsNotFound ==
    (pc = "replied" /\ received # None /\ Envelope.ok /\ Envelope.result = None) =>
        /\ reply.tag = "Err"
        /\ reply.kind = "bot::Error"
        /\ reply.code = 404
        /\ reply.message = "not found"
        /\ reply.value = None

\* C28 witness: get_me was answered with ok=true and no result, and its
\* caller holds the 404 error.
C28_Witness ==
    /\ pc = "replied"
    /\ call.name = "get_me"
    /\ received # None
    /\ Envelope.ok
    /\ Envelope.result = None
    /\ reply.code = 404

\* C29: in a posted multipart form every string parameter that is not a
\* file slot has a text part whose text is the string itself.
C29_StringPartIsRawString ==
    Posted("MULTIPART") =>
        \A k \in (DOMAIN params(request)) \ (DOMAIN files_map) :
            params(request)[k].t = "str" =>
                TextPart(k, params(request)[k].s) \in DOMAIN form

\* The BotApi value BotApi::new builds, as it is handed to the caller.
Built == JObj([url |-> JStr(call.self.url), token |-> JStr(call.self.token)])

\* The getMe answer BotApi::new accepts: ok=true with a User as result.
GetMeSucceeded ==
    /\ received # None
    /\ Envelope.ok
    /\ Envelope.result # None
    /\ Matches(Envelope.result[1], "User")

\* C30: the one request of BotApi::new goes to getMe under the url and the
\* token new was given; new returns Ok, with the value built from them,
\* exactly when that one request was answered ok=true with a User, and
\* otherwise returns the error of the dispatch and no value.
C30_NewNeedsOneGetMe ==
    call.name = "new" =>
        /\ sent <= 1
        /\ pc = "http" =>
              /\ sent = 1
              /\ posted = call.self.url \o call.self.token \o "/getMe"
              /\ call.self.token \in Tokens
        /\ pc = "new_returned" =>
              /\ reply.tag = "Ok" <=> GetMeSucceeded
              /\ reply.tag = "Ok" => sent = 1 /\ reply.value = Some([type |-> "BotApi", json |-> Built])
              /\ reply.tag = "Err" =>
                    /\ reply.value = None
                    /\ reply = (IF outcome.tag = "Err" THEN ReplyErr(outcome)
                                ELSE IF Envelope.result = None THEN ReplyErr(not_found)
                                ELSE ReplyErr(Err("serde_json")))

\* C30 witness: BotApi::new with token T2 and a custom url has returned Ok
\* after its one getMe request was answered with a User.
C30_Witness ==
    /\ pc = "new_returned"
    /\ call.name = "new"
    /\ call.self = BotApi("http://127.0.0.1:8081/bot", "T2")
    /\ sent = 1
    /\ GetMeSucceeded
    /\ reply.tag = "Ok"

====
